---- MODULE Spec2Model ----
(***************************************************************************)
(* Face-oval mosaic: the batch page (src/src/main.ts) and the single-image *)
(* page (src/unnamed/part_000).                                            *)
(*                                                                         *)
(* Numbers.  The source computes with doubles.  Here every real quantity   *)
(* is an exact rational carried as an integer numerator over a common      *)
(* denominator: landmark coordinates are the fractions k/GridN, contour    *)
(* vertices are numerators over PD(n) and the bounding region is           *)
(* numerators over RD(n), n being the number of usable contour points.     *)
(* 0.10, 0.08 and 1.12 are the rationals 1/10, 2/25 and 28/25.             *)
(*                                                                         *)
(* Rasters.  A canvas is a record [width, height, px] with px a function   *)
(* from <<column, row>> to a pixel value; 0 is transparent.  drawImage     *)
(* samples the source at the centre of each destination pixel (nearest     *)
(* neighbour) and a clip admits the pixels whose centre lies inside the    *)
(* path under the non-zero winding rule.                                   *)
(*                                                                         *)
(* Handlers.  An event listener or the continuation of an await runs to    *)
(* completion, so one action is the code from one pending await (or the    *)
(* event) to the next: forVisionTasks, createFromOptions,                  *)
(* createImageBitmap, toBlob and generateAsync are the points where        *)
(* another listener can run, and each of them may reject.  procs[r] is     *)
(* the r-th handleFiles / processFile invocation with its locals.          *)
(*                                                                         *)
(* Functions.  safeBaseName, buildMosaicPatch, the contour and the region  *)
(* are also taken on their own: arg is an input drawn from a bounded set   *)
(* and ret the list of the values the function returned for it.            *)
(***************************************************************************)
EXTENDS Integers, Sequences, FiniteSets, TLC

\* ---------------------------------------------------------------- bounds

\* landmark coordinates are k/GridN, k in 0..GridN
GridN == 2
\* image widths and heights of the compositor specification are 1..MaxDim
MaxDim == 3

\* ------------------------------------------------------- program constants

FACE_OVAL ==
  << 10, 338, 297, 332, 284, 251, 389, 356, 454, 323,
     361, 288, 397, 365, 379, 378, 400, 377, 152, 148,
     176, 149, 150, 136, 172, 58, 132, 93, 234, 127,
     162, 21, 54, 103, 67, 109 >>

clamp(v, min, max) ==
  LET inner == IF max < v THEN max ELSE v
  IN  IF min > inner THEN min ELSE inner

\* ------------------------------------------------------------- arithmetic

Min2(a, b) == IF a < b THEN a ELSE b
Max2(a, b) == IF a > b THEN a ELSE b

\* floor(a / b) and ceil(a / b) for b > 0 and any integer a
FloorDiv(a, b) == IF a >= 0 THEN a \div b ELSE -((-a + b - 1) \div b)
CeilDiv(a, b) == -FloorDiv(-a, b)

RECURSIVE SeqSum(_)
SeqSum(s) == IF s = << >> THEN 0 ELSE Head(s) + SeqSum(Tail(s))

RECURSIVE SeqMin(_)
SeqMin(s) == IF Len(s) = 1 THEN s[1] ELSE Min2(s[1], SeqMin(Tail(s)))

RECURSIVE SeqMax(_)
SeqMax(s) == IF Len(s) = 1 THEN s[1] ELSE Max2(s[1], SeqMax(Tail(s)))

\* denominator of contour vertices (n usable points) and of region values
PD(n) == GridN * n * 25
RD(n) == PD(n) * 300

\* ---------------------------------------------------------------- rasters

Pixels(w, h) == (0 .. w - 1) \X (0 .. h - 1)

\* document.createElement("canvas") sized w x h: transparent
BlankCanvas(w, h) ==
  [width |-> w, height |-> h, px |-> [q \in Pixels(w, h) |-> 0]]

\* getContext("2d") of a fresh canvas: no clip, smoothing on, empty stack
NewContext(cv) ==
  [canvas |-> cv, clip |-> << >>, imageSmoothingEnabled |-> TRUE,
   stack |-> << >>]

\* (b - a) x (p - a), a and b vertices (doubled here), p a doubled point
isLeft(a, b, p) ==
  (2 * b.x - 2 * a.x) * (p.y - 2 * a.y) - (p.x - 2 * a.x) * (2 * b.y - 2 * a.y)

\* winding number of the closed polygon poly about p, edges j, j+1, ...
RECURSIVE Winding(_, _, _)
Winding(poly, p, j) ==
  IF j > Len(poly) THEN 0
  ELSE LET a == poly[j]
           b == poly[(j % Len(poly)) + 1]
           rest == Winding(poly, p, j + 1)
       IN  IF 2 * a.y <= p.y
           THEN IF 2 * b.y > p.y /\ isLeft(a, b, p) > 0 THEN rest + 1 ELSE rest
           ELSE IF 2 * b.y <= p.y /\ isLeft(a, b, p) < 0 THEN rest - 1 ELSE rest

\* the centre of pixel q lies inside the closed path `path` (vertices over
\* path.den), non-zero winding rule; coordinates are doubled so that the
\* centre (q + 1/2) is an integer
InsidePath(path, q) ==
  LET c == [x |-> (2 * q[1] + 1) * path.den, y |-> (2 * q[2] + 1) * path.den]
  IN  Len(path.pts) >= 3 /\ Winding(path.pts, c, 1) # 0

\* the current clip admits pixel q
InClip(ctx2d, q) == \A k \in 1 .. Len(ctx2d.clip) : InsidePath(ctx2d.clip[k], q)

\* ctx.save()
ctxSave(ctx2d) ==
  [ctx2d EXCEPT !.stack =
     Append(@, [clip |-> ctx2d.clip,
                imageSmoothingEnabled |-> ctx2d.imageSmoothingEnabled])]

\* ctx.restore()
ctxRestore(ctx2d) ==
  IF ctx2d.stack = << >> THEN ctx2d
  ELSE LET top == ctx2d.stack[Len(ctx2d.stack)]
       IN  [ctx2d EXCEPT !.clip = top.clip,
                       !.imageSmoothingEnabled = top.imageSmoothingEnabled,
                       !.stack = SubSeq(@, 1, Len(@) - 1)]

\* beginPath(); moveTo(pts[0]); lineTo(pts[i])...; closePath(); clip()
ctxClip(ctx2d, path) == [ctx2d EXCEPT !.clip = Append(@, path)]

\* ctx.drawImage(img, x, y) with x, y numerators over den: pixel q of the
\* canvas takes the patch pixel under its centre where the clip admits it
ctxDrawImage(ctx2d, img, x, y, den) ==
  LET cv == ctx2d.canvas
      Col(q) == FloorDiv((2 * q[1] + 1) * den - 2 * x, 2 * den)
      Row(q) == FloorDiv((2 * q[2] + 1) * den - 2 * y, 2 * den)
      Hit(q) == /\ Col(q) >= 0 /\ Col(q) < img.width
                /\ Row(q) >= 0 /\ Row(q) < img.height
                /\ img.px[<<Col(q), Row(q)>>] # 0
                /\ InClip(ctx2d, q)
  IN  [ctx2d EXCEPT !.canvas.px =
         [q \in Pixels(cv.width, cv.height) |->
            IF Hit(q) THEN img.px[<<Col(q), Row(q)>>] ELSE cv.px[q]]]

\* a resample that takes the source pixel under the corner of each
\* destination pixel, not the one under its centre
ResampleCorner(src, dw, dh) ==
  [width |-> dw, height |-> dh,
   px |-> [q \in Pixels(dw, dh) |->
             src.px[<< (q[1] * src.width) \div dw,
                       (q[2] * src.height) \div dh >>]]]

\* nearest-neighbour resample of src to dw x dh (drawImage over the whole
\* destination)
Resample(src, dw, dh) ==
  [width |-> dw, height |-> dh,
   px |-> [q \in Pixels(dw, dh) |->
             src.px[<< ((2 * q[1] + 1) * src.width) \div (2 * dw),
                       ((2 * q[2] + 1) * src.height) \div (2 * dh) >>]]]

\* t1.drawImage(sourceCanvas, x, y, w, h, 0, 0, tw, th): x, y, w, h are
\* numerators over den; samples outside the source are transparent
Extract(src, x, y, w, h, tw, th, den) ==
  LET Sx(i) == FloorDiv(2 * tw * x + (2 * i + 1) * w, 2 * tw * den)
      Sy(j) == FloorDiv(2 * th * y + (2 * j + 1) * h, 2 * th * den)
  IN  [width |-> tw, height |-> th,
       px |-> [q \in Pixels(tw, th) |->
                 IF /\ Sx(q[1]) >= 0 /\ Sx(q[1]) < src.width
                    /\ Sy(q[2]) >= 0 /\ Sy(q[2]) < src.height
                 THEN src.px[<<Sx(q[1]), Sy(q[2])>>]
                 ELSE 0]]

\* blockSize is a numerator over den as well
buildMosaicPatch(sourceCanvas, x, y, w, h, blockSize, den) ==
  LET tw == CeilDiv(w, den)
      th == CeilDiv(h, den)
      tmp1 == Extract(sourceCanvas, x, y, w, h, tw, th, den)
      sw == Max2(1, (tw * den) \div blockSize)
      sh == Max2(1, (th * den) \div blockSize)
      tmp2 == Resample(tmp1, sw, sh)
  IN  Resample(tmp2, tw, th)

\* ------------------------------------------------------------- landmarks

\* A landmark array is [len, corner]: landmarks[i] is defined iff i < len,
\* and the landmark at the j-th FACE_OVAL index sits on corner
\* ((j - 1) * Len(corner)) \div 36 + 1 of the face's outline, whose
\* coordinates are the fractions kx/GridN, ky/GridN.
OvalPositions == [j \in 1 .. Len(FACE_OVAL) |-> j]

\* the array a .map() call returns: every element is computed once, when
\* the array is built
Built(s) == s \o << >>

\* landmarks[FACE_OVAL[j]]
LandmarkAt(landmarks, j) ==
  landmarks.corner[((j - 1) * Len(landmarks.corner)) \div Len(FACE_OVAL) + 1]

\* the kept positions, last first: the contour walked the other way
UsablePosReversed(landmarks) ==
  LET pos == SelectSeq(OvalPositions, LAMBDA j : FACE_OVAL[j] < landmarks.len)
  IN  [k \in 1 .. Len(pos) |-> pos[Len(pos) + 1 - k]]

\* FACE_OVAL.map((i) => landmarks[i]).filter(Boolean): the positions of
\* FACE_OVAL whose landmark is kept
UsablePos(landmarks) ==
  SelectSeq(OvalPositions, LAMBDA j : FACE_OVAL[j] < landmarks.len)

\* .map((p) => ({ x: p.x * imgW, y: p.y * imgH })), numerators over PD(n)
PixelPts(landmarks, imgW, imgH) ==
  LET pos == UsablePos(landmarks)
      n == Len(pos)
  IN  Built([j \in 1 .. n |->
               [x |-> LandmarkAt(landmarks, pos[j]).kx * imgW * n * 25,
                y |-> LandmarkAt(landmarks, pos[j]).ky * imgH * n * 25]])

Xs(pts) == Built([j \in 1 .. Len(pts) |-> pts[j].x])
Ys(pts) == Built([j \in 1 .. Len(pts) |-> pts[j].y])

\* centroid expansion by 1.12 = 28/25 (single-image page)
ExpandPts(rawPts) ==
  LET n == Len(rawPts)
      cx == SeqSum(Xs(rawPts)) \div n
      cy == SeqSum(Ys(rawPts)) \div n
  IN  Built([j \in 1 .. n |->
               [x |-> cx + ((rawPts[j].x - cx) * 28) \div 25,
                y |-> cy + ((rawPts[j].y - cy) * 28) \div 25]])

\* the region with the width taken from the height and the height from the
\* width
BoundingRegionSwapped(pts, imgW, imgH, padNum, padDen) ==
  LET n == Len(pts)
      minX == SeqMin(Xs(pts)) * 300
      minY == SeqMin(Ys(pts)) * 300
      maxX == SeqMax(Xs(pts)) * 300
      maxY == SeqMax(Ys(pts)) * 300
      w == maxX - minX
      h == maxY - minY
      x == clamp(minX - (w * padNum) \div padDen, 0, imgW * RD(n))
      y == clamp(minY - (h * padNum) \div padDen, 0, imgH * RD(n))
      cw == clamp((h * (padDen + 2 * padNum)) \div padDen, RD(n),
                  imgW * RD(n) - x)
      ch == clamp((w * (padDen + 2 * padNum)) \div padDen, RD(n),
                  imgH * RD(n) - y)
  IN  [x |-> x, y |-> y, cw |-> cw, ch |-> ch, w |-> w]

\* min/max loop, padding and clamping; pts over PD(n), pad = padNum/padDen,
\* the result [x, y, cw, ch, w] in numerators over RD(n)
BoundingRegion(pts, imgW, imgH, padNum, padDen) ==
  LET n == Len(pts)
      minX == SeqMin(Xs(pts)) * 300
      minY == SeqMin(Ys(pts)) * 300
      maxX == SeqMax(Xs(pts)) * 300
      maxY == SeqMax(Ys(pts)) * 300
      w == maxX - minX
      h == maxY - minY
      x == clamp(minX - (w * padNum) \div padDen, 0, imgW * RD(n))
      y == clamp(minY - (h * padNum) \div padDen, 0, imgH * RD(n))
      cw == clamp((w * (padDen + 2 * padNum)) \div padDen, RD(n),
                  imgW * RD(n) - x)
      ch == clamp((h * (padDen + 2 * padNum)) \div padDen, RD(n),
                  imgH * RD(n) - y)
  IN  [x |-> x, y |-> y, cw |-> cw, ch |-> ch, w |-> w]

\* the paste with the clip() call left out
ClipAndPasteUnclipped(ctx2d, contour, mosaicked, r) ==
  LET c1 == ctxSave(ctx2d)
      c3 == [c1 EXCEPT !.imageSmoothingEnabled = FALSE]
      c4 == ctxDrawImage(c3, mosaicked, r.x, r.y, r.den)
  IN  ctxRestore(c4)

\* save, path, clip, smoothing off, drawImage(mosaicked, x, y), restore
ClipAndPaste(ctx2d, contour, mosaicked, r) ==
  LET c1 == ctxSave(ctx2d)
      c2 == ctxClip(c1, contour)
      c3 == [c2 EXCEPT !.imageSmoothingEnabled = FALSE]
      c4 == ctxDrawImage(c3, mosaicked, r.x, r.y, r.den)
  IN  ctxRestore(c4)

\* main.ts 106-129: the usable points and the region, or NoGeom when the
\* face is rejected.  contour is the clip path, region is over region.den
NoGeom == [usable |-> 0, contour |-> << >>, region |-> << >>]

ovalGeom(landmarks, imgW, imgH) ==
  LET pts == PixelPts(landmarks, imgW, imgH)
      n == Len(pts)
      r == BoundingRegion(pts, imgW, imgH, 1, 10)
  IN  IF n < 3 THEN [NoGeom EXCEPT !.usable = n]
      ELSE [usable |-> n,
            contour |-> [pts |-> pts, den |-> PD(n)],
            region |-> [x |-> r.x, y |-> r.y, cw |-> r.cw, ch |-> r.ch,
                        w |-> r.w, den |-> RD(n)]]

\* part_000 123-160: the same with the contour expanded and pad 0.08
ovalGeomSingle(landmarks, imgW, imgH) ==
  LET rawPts == PixelPts(landmarks, imgW, imgH)
      n == Len(rawPts)
      pts == ExpandPts(rawPts)
      r == BoundingRegion(pts, imgW, imgH, 2, 25)
  IN  IF n < 3 THEN [NoGeom EXCEPT !.usable = n]
      ELSE [usable |-> n,
            contour |-> [pts |-> pts, den |-> PD(n)],
            region |-> [x |-> r.x, y |-> r.y, cw |-> r.cw, ch |-> r.ch,
                        w |-> r.w, den |-> RD(n)]]

\* mosaicFaceOval with save() moved before the length check, so that a
\* rejected face returns with the state stack one deeper
mosaicFaceOvalSaveFirst(ctx2d, landmarks, imgW, imgH, blockSize) ==
  LET g == ovalGeom(landmarks, imgW, imgH)
      r == g.region
      mosaicked == buildMosaicPatch(ctx2d.canvas, r.x, r.y, r.cw, r.ch,
                                    blockSize * r.den, r.den)
  IN  IF g.usable < 3 THEN ctxSave(ctx2d)
      ELSE ClipAndPaste(ctx2d, g.contour, mosaicked, r)

\* batch page: no expansion, pad 0.10, the caller's block size (an integer)
mosaicFaceOval(ctx2d, landmarks, imgW, imgH, blockSize) ==
  LET g == ovalGeom(landmarks, imgW, imgH)
      r == g.region
      mosaicked == buildMosaicPatch(ctx2d.canvas, r.x, r.y, r.cw, r.ch,
                                    blockSize * r.den, r.den)
  IN  IF g.usable < 3 THEN ctx2d
      ELSE ClipAndPaste(ctx2d, g.contour, mosaicked, r)

\* the block size without its lower limit: Math.min(32, w / 12)
effectiveBlockNoFloor(w, den) == Min2(32 * den, w \div 12)

\* Math.max(12, Math.min(32, w / 12)) as a numerator over den (w is a
\* multiple of 12)
effectiveBlock(w, den) == Max2(12 * den, Min2(32 * den, w \div 12))

\* single-image page: expansion 1.12, pad 0.08, block size from the width
mosaicFaceOvalSingle(ctx2d, landmarks, imgW, imgH) ==
  LET g == ovalGeomSingle(landmarks, imgW, imgH)
      r == g.region
      mosaicked == buildMosaicPatch(ctx2d.canvas, r.x, r.y, r.cw, r.ch,
                                    effectiveBlock(r.w, r.den), r.den)
  IN  IF g.usable < 3 THEN ctx2d
      ELSE ClipAndPaste(ctx2d, g.contour, mosaicked, r)

\* ------------------------------------------------------------------ state

VARIABLES
  page,        \* "batch" (main.ts) or "single" (part_000)
  \* one image under the face loop (main.ts 191-195, part_000 81-83)
  dimW, dimH,  \* img.width, img.height
  faceList,    \* res.faceLandmarks
  faceNo,      \* the face the loop handles next
  block,       \* strength handed to mosaicFaceOval (batch page)
  surface,     \* the context drawn on
  surfaceWas,  \* the same context before the latest mosaicFaceOval call
  geom,        \* the contour and region of the latest call
  \* the page
  landmarker,     \* 0 (null) or the number of the detector instance
  statusEl,       \* statusEl.textContent, as a tuple
  strengthEl,     \* strengthEl.value
  strengthValEl,  \* strengthValEl.textContent
  lastZipBlob,    \* NoZip (null) or the archive of a run
  downloadZipBtn, \* downloadZipBtn.disabled
  pctx,           \* the preview canvas context (batch page)
  ctx,            \* the canvas context (single-image page)
  procs,          \* the handler invocations: handleFiles / processFile
  loads,          \* model loads [started, failed, created] so far
  download,       \* what the latest step handed to the user as a download
  \* one function applied to a drawn input
  arg,            \* the input
  ret             \* the values returned so far, first application first

pageVars ==
  <<landmarker, statusEl, strengthEl, strengthValEl, lastZipBlob,
    downloadZipBtn, pctx, ctx, procs, loads>>

loopVars ==
  <<dimW, dimH, faceList, faceNo, block, surface, surfaceWas, geom, arg, ret>>

\* ---------------------------------------------------------------- inputs

\* face outlines: the right triangles with corners on the landmark grid
\* (a triangle may be flat: all points sharing one x or one y)
Outlines ==
  { << [kx |-> b[1], ky |-> b[3]], [kx |-> b[2], ky |-> b[3]],
       [kx |-> b[1], ky |-> b[4]] >> :
      b \in { c \in (0 .. GridN) \X (0 .. GridN) \X (0 .. GridN) \X (0 .. GridN) :
                c[1] <= c[2] /\ c[3] <= c[4] } }

\* landmark array lengths: 0, 2, 3, 23 and all 36 oval indices resolve
ArrayLens == {0, 22, 55, 300, 478}

Faces == [len : ArrayLens, corner : Outlines]

\* a complete face covering the whole image
WholeFace ==
  [len |-> 478,
   corner |-> << [kx |-> 0, ky |-> 0], [kx |-> GridN, ky |-> 0],
                 [kx |-> GridN, ky |-> GridN], [kx |-> 0, ky |-> GridN] >>]

\* one face, or a rejected or barely accepted face followed by a whole one
FaceLists ==
  { <<f>> : f \in Faces }
    \cup { <<f, WholeFace>> : f \in { g \in Faces : g.len <= 55 } }

\* slider values
Strengths == {2, 16}

\* a decoded w x h image: every pixel its own opaque value
Bitmap(w, h) ==
  [width |-> w, height |-> h,
   px |-> [q \in Pixels(w, h) |-> 1 + q[1] + w * q[2]]]

\* c.width = img.width; c.height = img.height; ctx.drawImage(img, 0, 0)
DrawnContext(img) == NewContext(img)

\* ------------------------------------------------------- page constants

\* the handler invocations that reach an await are numbered 1 .. MaxRuns
MaxRuns == 2

Runs == 1 .. MaxRuns

NoZip == [run |-> 0, entries |-> << >>]
NoBlob == [type |-> "", width |-> 0, height |-> 0, px |-> << >>]
NoDownload == [zip |-> NoZip, png |-> NoBlob]

\* an invocation that has not happened yet
IdleProc ==
  [pc |-> "idle", files |-> << >>, i |-> 0, lm |-> 0, strength |-> 0,
   blob |-> NoBlob, zip |-> << >>, composed |-> 0, published |-> FALSE,
   failedBefore |-> 0]

\* the page before any event, the part a face-loop run leaves alone
\* no function under test
FnUnused == arg = << >> /\ ret = << >>

PageUnused ==
  /\ landmarker = 0
  /\ statusEl = <<"prompt">>
  /\ strengthEl = 0
  /\ strengthValEl = 0
  /\ lastZipBlob = NoZip
  /\ downloadZipBtn = TRUE
  /\ pctx = NewContext(BlankCanvas(0, 0))
  /\ ctx = NewContext(BlankCanvas(0, 0))
  /\ procs = [r \in Runs |-> IdleProc]
  /\ loads = [started |-> 0, failed |-> 0, created |-> 0]
  /\ download = NoDownload

\* --------------------------------------------- the face loop, one image

ComposeInit ==
  /\ page \in {"batch", "single"}
  /\ dimW \in 1 .. MaxDim
  /\ dimH \in 1 .. MaxDim
  /\ faceList \in FaceLists
  /\ faceNo = 1
  /\ block \in (IF page = "batch" THEN Strengths ELSE {0})
  /\ surface = DrawnContext(Bitmap(dimW, dimH))
  /\ surfaceWas = surface
  /\ geom = NoGeom
  /\ FnUnused
  /\ PageUnused

\* main.ts 191-192: one iteration, mosaicFaceOval on the output surface
ComposeFace ==
  /\ page = "batch"
  /\ faceNo <= Len(faceList)
  /\ surfaceWas' = surface
  /\ surface' = mosaicFaceOval(surface, faceList[faceNo], dimW, dimH, block)
  /\ geom' = ovalGeom(faceList[faceNo], dimW, dimH)
  /\ faceNo' = faceNo + 1
  /\ UNCHANGED <<page, dimW, dimH, faceList, block, pageVars, download, arg, ret>>

\* part_000 81-83: one iteration on the page's canvas
ComposeFaceSingle ==
  /\ page = "single"
  /\ faceNo <= Len(faceList)
  /\ surfaceWas' = surface
  /\ surface' = mosaicFaceOvalSingle(surface, faceList[faceNo], dimW, dimH)
  /\ geom' = ovalGeomSingle(faceList[faceNo], dimW, dimH)
  /\ faceNo' = faceNo + 1
  /\ UNCHANGED <<page, dimW, dimH, faceList, block, pageVars, download, arg, ret>>

ComposeNext == ComposeFace \/ ComposeFaceSingle

vars == <<page, loopVars, pageVars, download>>

SpecCompose == ComposeInit /\ [][ComposeNext]_vars

\* ----------------------------------------------------- compositor claims

Usable(f) == Len(UsablePos(f))

\* C2: for every image size and every face with at least 3 usable contour
\* points, the region (x, y, cw, ch) computed by mosaicFaceOval satisfies
\* x >= 0, y >= 0, cw >= 1, ch >= 1, x + cw <= W and y + ch <= H.
C2_RegionInsideImage ==
  (faceNo > 1 /\ geom.usable >= 3) =>
     LET r == geom.region
     IN  /\ r.x >= 0 /\ r.y >= 0
         /\ r.cw >= r.den /\ r.ch >= r.den
         /\ r.x + r.cw <= dimW * r.den
         /\ r.y + r.ch <= dimH * r.den

\* C6: after mosaicFaceOval has handled a face with at least 3 usable
\* points, every pixel whose centre is not inside the contour polygon has
\* the value it had before the call, and the drawing state (clip, state
\* stack, smoothing flag) is what it was before the call: no clip is left.
C6_ClipCorrect ==
  (faceNo > 1 /\ geom.usable >= 3) =>
     /\ \A q \in Pixels(dimW, dimH) :
          ~InsidePath(geom.contour, q) =>
             surface.canvas.px[q] = surfaceWas.canvas.px[q]
     /\ surface.clip = << >>
     /\ surface.clip = surfaceWas.clip
     /\ surface.stack = surfaceWas.stack
     /\ surface.imageSmoothingEnabled = surfaceWas.imageSmoothingEnabled

\* pixel q has its centre inside the region rectangle
InRegion(r, q) ==
  /\ 2 * r.x <= (2 * q[1] + 1) * r.den
  /\ (2 * q[1] + 1) * r.den <= 2 * (r.x + r.cw)
  /\ 2 * r.y <= (2 * q[2] + 1) * r.den
  /\ (2 * q[2] + 1) * r.den <= 2 * (r.y + r.ch)

\* C6 witness: a call that changed a pixel inside the contour while a pixel
\* of the region rectangle outside the contour kept its value
C6_Witness ==
  /\ faceNo > 1 /\ geom.usable >= 3
  /\ \E q \in Pixels(dimW, dimH) :
        InsidePath(geom.contour, q)
        /\ surface.canvas.px[q] # surfaceWas.canvas.px[q]
  /\ \E q \in Pixels(dimW, dimH) :
        ~InsidePath(geom.contour, q) /\ InRegion(geom.region, q)

\* C7: a face with fewer than 3 usable points leaves the pixels and the
\* drawing state of the surface as they were, and the faces after it are
\* still processed: the image ends as if the rejected face were not there.
C7_SkipCorrect ==
  /\ (faceNo > 1 /\ geom.usable < 3) => surface = surfaceWas
  /\ (faceNo = 3 /\ Usable(faceList[1]) < 3) =>
        surface = (IF page = "batch"
                   THEN mosaicFaceOval(DrawnContext(Bitmap(dimW, dimH)),
                                       faceList[2], dimW, dimH, block)
                   ELSE mosaicFaceOvalSingle(DrawnContext(Bitmap(dimW, dimH)),
                                             faceList[2], dimW, dimH))

\* C7 witness: a rejected face was followed by a face that was mosaicked
C7_Witness ==
  /\ faceNo = 3 /\ Usable(faceList[1]) < 3 /\ Usable(faceList[2]) >= 3
  /\ page = "batch"
  /\ surface.canvas # Bitmap(dimW, dimH)

\* ------------------------------------------------------------------ files

\* the files a user can hand over: F1 holds one face, F2 none, F3 is no
\* image; F1 and F2 differ in their extension only
Files == {"F1", "F2", "F3"}

\* two wider pictures, F4 with one face and F5 with two
Portraits == {"F4", "F5"}

FileName(f) ==
  CASE f = "F1" -> <<"a", ".", "p">>
    [] f = "F2" -> <<"a", ".", "j">>
    [] f = "F4" -> <<"b", ".", "p">>
    [] f = "F5" -> <<"c", ".", "p">>
    [] OTHER    -> <<"n", ".", "t">>

\* f.type.startsWith("image/")
IsImage(f) == f \in {"F1", "F2", "F4", "F5"}

\* createImageBitmap(f): 2 x 2, 2 x 1 and (the portraits) 4 x 1, every
\* pixel its own opaque value
FileBitmap(f) ==
  LET w == IF f \in Portraits THEN 4 ELSE 2
      h == IF f = "F1" THEN 2 ELSE 1
      base == CASE f = "F1" -> 10 [] f = "F4" -> 30 [] f = "F5" -> 40
                [] OTHER -> 20
  IN  [width |-> w, height |-> h,
       px |-> [q \in Pixels(w, h) |-> base + 1 + q[1] + w * q[2]]]

\* lm.detect(img).faceLandmarks ?? []
FileFaces(f) ==
  LET corner == [len |-> 478,
                 corner |-> << [kx |-> 0, ky |-> 0], [kx |-> GridN, ky |-> 0],
                               [kx |-> 0, ky |-> GridN] >>]
  IN  CASE f \in {"F1", "F4"} -> <<corner>>
        [] f = "F5" -> <<corner, WholeFace>>
        [] OTHER -> << >>

\* the files that decode
Pictures == { g \in Files \cup Portraits : IsImage(g) }

\* fileEl.files / dataTransfer.files of one event
FileLists == { << >>, <<"F3">>, <<"F1", "F2", "F3">> }

\* canvas.toBlob(..., "image/png"): PNG keeps size and pixels
PngBlob(cv) ==
  [type |-> "image/png", width |-> cv.width, height |-> cv.height,
   px |-> cv.px]

\* ----------------------------------------------------------- safeBaseName

BadChars == {"\\", "/", ":", "*", "?", "\"", "<", ">", "|"}

RECURSIVE LastDot(_, _)
LastDot(name, p) ==
  IF p = 0 THEN 0 ELSE IF name[p] = "." THEN p ELSE LastDot(name, p - 1)

\* name.replace(/\.[^.]+$/, "")
StripExt(name) ==
  LET p == LastDot(name, Len(name))
  IN  IF p > 0 /\ p < Len(name) THEN SubSeq(name, 1, p - 1) ELSE name

\* the replacement without the g flag: the first match only
ReplaceBadFirst(base) ==
  [k \in 1 .. Len(base) |->
     IF base[k] \in BadChars /\ \A j \in 1 .. k - 1 : base[j] \notin BadChars
     THEN "_" ELSE base[k]]

\* .replace(/[\\/:*?"<>|]/g, "_")
ReplaceBad(base) ==
  [k \in 1 .. Len(base) |-> IF base[k] \in BadChars THEN "_" ELSE base[k]]

RECURSIVE TrimLeft(_)
TrimLeft(t) ==
  IF t # << >> /\ Head(t) = " " THEN TrimLeft(Tail(t)) ELSE t

RECURSIVE TrimRight(_)
TrimRight(t) ==
  IF t # << >> /\ t[Len(t)] = " "
  THEN TrimRight(SubSeq(t, 1, Len(t) - 1)) ELSE t

\* .trim()
Trim(t) == TrimRight(TrimLeft(t))

safeBaseName(name) ==
  LET t == Trim(ReplaceBad(StripExt(name)))
  IN  IF t = << >> THEN <<"i", "m", "a", "g", "e">> ELSE t

\* `${safeBaseName(file.name)}_mosaic.png`
EntryName(f) == safeBaseName(FileName(f)) \o <<"_mosaic.png">>

\* new JSZip()
EmptyZip == [n \in {} |-> NoBlob]

\* zip.file(name, blob): an entry of that name is replaced
ZipFile(zip, name, blob) ==
  [n \in (DOMAIN zip) \cup {name} |-> IF n = name THEN blob ELSE zip[n]]

\* ----------------------------------------------------- the pages, helpers

\* for (const face of faces) mosaicFaceOval(ctx, face, w, h, strength)
RECURSIVE ComposeAll(_, _, _, _, _)
ComposeAll(c, faces, imgW, imgH, strength) ==
  IF faces = << >> THEN c
  ELSE ComposeAll(mosaicFaceOval(c, Head(faces), imgW, imgH, strength),
                  Tail(faces), imgW, imgH, strength)

\* for (const face of faces) mosaicFaceOval(ctx, face, w, h)
RECURSIVE ComposeAllSingle(_, _, _, _)
ComposeAllSingle(c, faces, imgW, imgH) ==
  IF faces = << >> THEN c
  ELSE ComposeAllSingle(mosaicFaceOvalSingle(c, Head(faces), imgW, imgH),
                        Tail(faces), imgW, imgH)

\* the table with a detector miss taken for one face covering the image
RenderedFallbackFace ==
  [f \in Pictures, b \in Strengths |->
     ComposeAll(DrawnContext(FileBitmap(f)),
                IF FileFaces(f) = << >> THEN <<WholeFace>> ELSE FileFaces(f),
                FileBitmap(f).width, FileBitmap(f).height, b)]

\* What createImageBitmap, lm.detect and the face loop make of file f at
\* block size b: decoding and detection are functions of the file, so the
\* surface after the loop is tabulated once per (file, strength).
Rendered ==
  [f \in Pictures, b \in Strengths |->
     ComposeAll(DrawnContext(FileBitmap(f)), FileFaces(f),
                FileBitmap(f).width, FileBitmap(f).height, b)]

\* the same for the single-image page
RenderedSingle ==
  [f \in Pictures |->
     ComposeAllSingle(DrawnContext(FileBitmap(f)), FileFaces(f),
                      FileBitmap(f).width, FileBitmap(f).height)]

\* the lowest invocation number not used yet
NextRun == CHOOSE r \in Runs : procs[r].pc = "idle" /\ \A q \in 1 .. r - 1 : procs[q].pc # "idle"

HasIdleRun == \E r \in Runs : procs[r].pc = "idle"

\* a rejected await or a throw reaches the catch block: the locals are gone
Caught(rec) == [IdleProc EXCEPT !.pc = "failed", !.files = rec.files]

\* ------------------------------------------------------------- batch page

\* processOneFile up to its first pending await, for file rec.i of run r.
\* initLandmarker returns the memoized detector at once (the awaits on a
\* settled promise resume within the same task), or sets the status and
\* starts the load.
BeginOneFile(r, rec) ==
  IF landmarker # 0
  THEN /\ procs' = [procs EXCEPT ![r] =
                      [rec EXCEPT !.pc = "decode", !.lm = landmarker,
                                  !.strength = strengthEl]]
       /\ statusEl' = <<"processing", rec.i, Len(rec.files), rec.files[rec.i]>>
       /\ loads' = loads
  ELSE /\ procs' = [procs EXCEPT ![r] =
                      [rec EXCEPT !.pc = "fileset",
                                  !.failedBefore = loads.failed]]
       /\ statusEl' = <<"initializing">>
       /\ loads' = [loads EXCEPT !.started = @ + 1]

\* handleFiles(files) up to its first pending await
handleFiles(files) ==
  LET imgs == SelectSeq(files, IsImage)
  IN  IF Len(files) = 0
      THEN UNCHANGED pageVars
      ELSE IF Len(imgs) = 0
      THEN /\ statusEl' = <<"noimages">>
           /\ UNCHANGED <<landmarker, strengthEl, strengthValEl, lastZipBlob,
                          downloadZipBtn, pctx, ctx, procs, loads>>
      ELSE /\ HasIdleRun
           /\ downloadZipBtn' = TRUE
           /\ lastZipBlob' = NoZip
           /\ BeginOneFile(NextRun, [IdleProc EXCEPT !.files = imgs, !.i = 1,
                                                     !.zip = EmptyZip])
           /\ UNCHANGED <<landmarker, strengthEl, strengthValEl, pctx, ctx>>

\* fileEl "change"
Change ==
  /\ page = "batch"
  /\ \E files \in FileLists : handleFiles(files)
  /\ UNCHANGED loopVars /\ UNCHANGED page
  /\ download' = NoDownload

\* dropEl "drop"; without a dataTransfer the handler returns
Drop ==
  /\ page = "batch"
  /\ \/ UNCHANGED pageVars
     \/ \E files \in FileLists : handleFiles(files)
  /\ UNCHANGED loopVars /\ UNCHANGED page
  /\ download' = NoDownload

\* strengthEl "input" (both pages)
StrengthInput ==
  /\ \E v \in Strengths : strengthEl' = v /\ strengthValEl' = v
  /\ UNCHANGED <<landmarker, statusEl, lastZipBlob, downloadZipBtn, pctx,
                 ctx, procs, loads, page, loopVars>>
  /\ download' = NoDownload

\* the catch block with its status line left out
CatchSilent(r) ==
  /\ statusEl' = statusEl
  /\ procs' = [procs EXCEPT ![r] = Caught(procs[r])]

\* the catch block of handleFiles
Catch(r) ==
  /\ statusEl' = <<"error">>
  /\ procs' = [procs EXCEPT ![r] = Caught(procs[r])]

\* FilesetResolver.forVisionTasks resolved: createFromOptions starts
FilesetResolved(r) ==
  /\ page = "batch" /\ procs[r].pc = "fileset"
  /\ procs' = [procs EXCEPT ![r].pc = "create"]
  /\ UNCHANGED <<landmarker, statusEl, strengthEl, strengthValEl, lastZipBlob,
                 downloadZipBtn, pctx, ctx, loads, page,
                 loopVars>>
  /\ download' = NoDownload

\* a rejected load that leaves a handle behind all the same
FilesetFailedMemoized(r) ==
  /\ page = "batch" /\ procs[r].pc = "fileset"
  /\ Catch(r)
  /\ loads' = [loads EXCEPT !.failed = @ + 1]
  /\ landmarker' = loads.started
  /\ UNCHANGED <<strengthEl, strengthValEl, lastZipBlob,
                 downloadZipBtn, pctx, ctx, page, loopVars>>
  /\ download' = NoDownload

\* FilesetResolver.forVisionTasks rejected
FilesetFailed(r) ==
  /\ page = "batch" /\ procs[r].pc = "fileset"
  /\ Catch(r)
  /\ loads' = [loads EXCEPT !.failed = @ + 1]
  /\ UNCHANGED <<landmarker, strengthEl, strengthValEl, lastZipBlob,
                 downloadZipBtn, pctx, ctx, page, loopVars>>
  /\ download' = NoDownload

\* createFromOptions resolved: landmarker is assigned and returned, and
\* processOneFile goes on to createImageBitmap
CreateResolved(r) ==
  /\ page = "batch" /\ procs[r].pc = "create"
  /\ landmarker' = loads.created + 1
  /\ loads' = [loads EXCEPT !.created = @ + 1]
  /\ procs' = [procs EXCEPT ![r].pc = "decode", ![r].lm = landmarker',
                            ![r].strength = strengthEl]
  /\ statusEl' = <<"processing", procs[r].i, Len(procs[r].files),
                   procs[r].files[procs[r].i]>>
  /\ UNCHANGED <<strengthEl, strengthValEl, lastZipBlob, downloadZipBtn,
                 pctx, ctx, page, loopVars>>
  /\ download' = NoDownload

\* createFromOptions rejected
CreateFailed(r) ==
  /\ page = "batch" /\ procs[r].pc = "create"
  /\ Catch(r)
  /\ loads' = [loads EXCEPT !.failed = @ + 1]
  /\ UNCHANGED <<landmarker, strengthEl, strengthValEl, lastZipBlob,
                 downloadZipBtn, pctx, ctx, page, loopVars>>
  /\ download' = NoDownload

\* createImageBitmap resolved: draw, detect, preview, the face loop, toBlob
DecodeResolved(r) ==
  LET rec == procs[r]
      f == rec.files[rec.i]
      faces == FileFaces(f)
      c == Rendered[f, rec.strength]
  IN  /\ page = "batch" /\ rec.pc = "decode"
      /\ pctx' = Rendered[f, rec.strength]
      /\ statusEl' = IF faces = << >> THEN <<"noface", f>> ELSE statusEl
      /\ procs' = [procs EXCEPT ![r] =
                     [rec EXCEPT !.pc = "encode", !.strength = 0,
                                 !.composed = Len(faces),
                                 !.blob = PngBlob(c.canvas)]]
      /\ UNCHANGED <<landmarker, strengthEl, strengthValEl, lastZipBlob,
                     downloadZipBtn, ctx, loads, page,
                     loopVars>>
      /\ download' = NoDownload

\* createImageBitmap rejected
DecodeFailed(r) ==
  /\ page = "batch" /\ procs[r].pc = "decode"
  /\ Catch(r)
  /\ UNCHANGED <<landmarker, strengthEl, strengthValEl, lastZipBlob,
                 downloadZipBtn, pctx, ctx, loads, page,
                 loopVars>>
  /\ download' = NoDownload

\* createImageBitmap resolved and lm.detect threw: the preview is not
\* reached
DetectThrew(r) ==
  /\ page = "batch" /\ procs[r].pc = "decode"
  /\ Catch(r)
  /\ UNCHANGED <<landmarker, strengthEl, strengthValEl, lastZipBlob,
                 downloadZipBtn, pctx, ctx, loads, page,
                 loopVars>>
  /\ download' = NoDownload

\* toBlob called back, the remaining files left out: on to the archive
EncodeResolvedSkipping(r) ==
  LET rec == procs[r]
      f == rec.files[rec.i]
      added == [rec EXCEPT !.zip = ZipFile(rec.zip, EntryName(f), rec.blob),
                           !.blob = NoBlob, !.composed = 0]
  IN  /\ page = "batch" /\ rec.pc = "encode"
      /\ statusEl' = <<"zipping", Len(rec.files)>>
      /\ procs' = [procs EXCEPT ![r] = [added EXCEPT !.pc = "zip"]]
      /\ loads' = loads
      /\ UNCHANGED <<landmarker, strengthEl, strengthValEl, lastZipBlob,
                     downloadZipBtn, pctx, ctx, page, loopVars>>
      /\ download' = NoDownload

\* toBlob called back with a blob: zip.file, then the next file or the
\* archive
EncodeResolved(r) ==
  LET rec == procs[r]
      f == rec.files[rec.i]
      added == [rec EXCEPT !.zip = ZipFile(rec.zip, EntryName(f), rec.blob),
                           !.blob = NoBlob, !.composed = 0]
  IN  /\ page = "batch" /\ rec.pc = "encode"
      /\ IF rec.i < Len(rec.files)
         THEN BeginOneFile(r, [added EXCEPT !.i = rec.i + 1])
         ELSE /\ statusEl' = <<"zipping", Len(rec.files)>>
              /\ procs' = [procs EXCEPT ![r] = [added EXCEPT !.pc = "zip"]]
              /\ loads' = loads
      /\ UNCHANGED <<landmarker, strengthEl, strengthValEl, lastZipBlob,
                     downloadZipBtn, pctx, ctx, page, loopVars>>
      /\ download' = NoDownload

\* toBlob called back with null
EncodeFailed(r) ==
  /\ page = "batch" /\ procs[r].pc = "encode"
  /\ Catch(r)
  /\ UNCHANGED <<landmarker, strengthEl, strengthValEl, lastZipBlob,
                 downloadZipBtn, pctx, ctx, loads, page,
                 loopVars>>
  /\ download' = NoDownload

\* zip.generateAsync resolved
ZipResolved(r) ==
  /\ page = "batch" /\ procs[r].pc = "zip"
  /\ lastZipBlob' = [run |-> r, entries |-> procs[r].zip]
  /\ downloadZipBtn' = FALSE
  /\ statusEl' = <<"done", Len(procs[r].files)>>
  /\ procs' = [procs EXCEPT ![r].pc = "done", ![r].published = TRUE]
  /\ UNCHANGED <<landmarker, strengthEl, strengthValEl, pctx, ctx, loads, page, loopVars>>
  /\ download' = NoDownload

\* zip.generateAsync rejected
ZipFailed(r) ==
  /\ page = "batch" /\ procs[r].pc = "zip"
  /\ Catch(r)
  /\ UNCHANGED <<landmarker, strengthEl, strengthValEl, lastZipBlob,
                 downloadZipBtn, pctx, ctx, loads, page,
                 loopVars>>
  /\ download' = NoDownload

\* downloadZipBtn "click" (a disabled button gets no click)
DownloadZipClick ==
  /\ page = "batch" /\ ~downloadZipBtn
  /\ download' = IF lastZipBlob = NoZip THEN NoDownload
                 ELSE [zip |-> lastZipBlob, png |-> NoBlob]
  /\ UNCHANGED <<landmarker, statusEl, strengthEl, strengthValEl,
                 lastZipBlob, downloadZipBtn, pctx, ctx, procs, loads, page,
                 loopVars>>

\* ------------------------------------------------------ single-image page

\* processFile up to its first pending await
BeginProcessFile(r, rec) ==
  IF landmarker # 0
  THEN /\ procs' = [procs EXCEPT ![r] =
                      [rec EXCEPT !.pc = "decode", !.lm = landmarker]]
       /\ statusEl' = <<"loading">>
       /\ loads' = loads
  ELSE /\ procs' = [procs EXCEPT ![r] =
                      [rec EXCEPT !.pc = "fileset",
                                  !.failedBefore = loads.failed]]
       /\ statusEl' = <<"initializing">>
       /\ loads' = [loads EXCEPT !.started = @ + 1]

\* fileEl "change": processFile(files[0]), not awaited
ChangeSingle ==
  /\ page = "single"
  /\ \/ UNCHANGED pageVars
     \/ /\ HasIdleRun
        /\ \E f \in Files :
             BeginProcessFile(NextRun, [IdleProc EXCEPT !.files = <<f>>,
                                                        !.i = 1])
        /\ UNCHANGED <<landmarker, strengthEl, strengthValEl, lastZipBlob,
                       downloadZipBtn, pctx, ctx>>
  /\ UNCHANGED loopVars /\ UNCHANGED page
  /\ download' = NoDownload

\* document "drop": processFile(files[0]) for an image, not awaited
DropSingle ==
  /\ page = "single"
  /\ \/ UNCHANGED pageVars
     \/ /\ HasIdleRun
        /\ \E f \in { g \in Files : IsImage(g) } :
             BeginProcessFile(NextRun, [IdleProc EXCEPT !.files = <<f>>,
                                                        !.i = 1])
        /\ UNCHANGED <<landmarker, strengthEl, strengthValEl, lastZipBlob,
                       downloadZipBtn, pctx, ctx>>
  /\ UNCHANGED loopVars /\ UNCHANGED page
  /\ download' = NoDownload

\* the catch block of processFile
CatchSingle(r) ==
  /\ statusEl' = <<"error">>
  /\ procs' = [procs EXCEPT ![r] = Caught(procs[r])]

FilesetResolvedSingle(r) ==
  /\ page = "single" /\ procs[r].pc = "fileset"
  /\ procs' = [procs EXCEPT ![r].pc = "create"]
  /\ UNCHANGED <<landmarker, statusEl, strengthEl, strengthValEl, lastZipBlob,
                 downloadZipBtn, pctx, ctx, loads, page,
                 loopVars>>
  /\ download' = NoDownload

FilesetFailedSingle(r) ==
  /\ page = "single" /\ procs[r].pc = "fileset"
  /\ CatchSingle(r)
  /\ loads' = [loads EXCEPT !.failed = @ + 1]
  /\ UNCHANGED <<landmarker, strengthEl, strengthValEl, lastZipBlob,
                 downloadZipBtn, pctx, ctx, page, loopVars>>
  /\ download' = NoDownload

\* createFromOptions resolved: landmarker is assigned and returned, and
\* processFile goes on to createImageBitmap
CreateResolvedSingle(r) ==
  /\ page = "single" /\ procs[r].pc = "create"
  /\ landmarker' = loads.created + 1
  /\ loads' = [loads EXCEPT !.created = @ + 1]
  /\ procs' = [procs EXCEPT ![r].pc = "decode", ![r].lm = landmarker']
  /\ statusEl' = <<"loading">>
  /\ UNCHANGED <<strengthEl, strengthValEl, lastZipBlob, downloadZipBtn,
                 pctx, ctx, page, loopVars>>
  /\ download' = NoDownload

CreateFailedSingle(r) ==
  /\ page = "single" /\ procs[r].pc = "create"
  /\ CatchSingle(r)
  /\ loads' = [loads EXCEPT !.failed = @ + 1]
  /\ UNCHANGED <<landmarker, strengthEl, strengthValEl, lastZipBlob,
                 downloadZipBtn, pctx, ctx, page, loopVars>>
  /\ download' = NoDownload

\* createImageBitmap resolved: size and draw the canvas, detect, the loop
DecodeResolvedSingle(r) ==
  LET rec == procs[r]
      f == rec.files[rec.i]
      faces == FileFaces(f)
  IN  /\ page = "single" /\ rec.pc = "decode" /\ IsImage(f)
      /\ ctx' = RenderedSingle[f]
      /\ statusEl' = IF faces = << >> THEN <<"noface">>
                     ELSE <<"done", Len(faces)>>
      /\ procs' = [procs EXCEPT ![r] =
                     [rec EXCEPT !.pc = "done", !.composed = Len(faces)]]
      /\ UNCHANGED <<landmarker, strengthEl, strengthValEl, lastZipBlob,
                     downloadZipBtn, pctx, loads, page,
                     loopVars>>
      /\ download' = NoDownload

\* createImageBitmap rejected
DecodeFailedSingle(r) ==
  /\ page = "single" /\ procs[r].pc = "decode"
  /\ CatchSingle(r)
  /\ UNCHANGED <<landmarker, strengthEl, strengthValEl, lastZipBlob,
                 downloadZipBtn, pctx, ctx, loads, page,
                 loopVars>>
  /\ download' = NoDownload

\* createImageBitmap resolved and lm.detect threw: the canvas already
\* shows the plain image
DetectThrewSingle(r) ==
  /\ page = "single" /\ procs[r].pc = "decode"
  /\ IsImage(procs[r].files[procs[r].i])
  /\ ctx' = DrawnContext(FileBitmap(procs[r].files[procs[r].i]))
  /\ CatchSingle(r)
  /\ UNCHANGED <<landmarker, strengthEl, strengthValEl, lastZipBlob,
                 downloadZipBtn, pctx, loads, page, loopVars>>
  /\ download' = NoDownload

\* downloadBtn "click": canvas.toDataURL("image/png")
DownloadClick ==
  /\ page = "single"
  /\ download' = [zip |-> NoZip, png |-> PngBlob(ctx.canvas)]
  /\ UNCHANGED <<landmarker, statusEl, strengthEl, strengthValEl,
                 lastZipBlob, downloadZipBtn, pctx, ctx, procs, loads, page,
                 loopVars>>

\* ---------------------------------------------------------- specification

\* the face-loop variables, which the pages leave alone
LoopUnused ==
  /\ dimW = 0 /\ dimH = 0 /\ faceList = << >> /\ faceNo = 0 /\ block = 0
  /\ surface = NewContext(BlankCanvas(0, 0))
  /\ surfaceWas = NewContext(BlankCanvas(0, 0))
  /\ geom = NoGeom

\* the page as loaded; the slider position, its readout and the download
\* button's disabled attribute come from the HTML
Init ==
  /\ page \in {"batch", "single"}
  /\ LoopUnused
  /\ FnUnused
  /\ landmarker = 0
  /\ statusEl = (IF page = "batch" THEN <<"prompt">> ELSE <<"html">>)
  /\ strengthEl \in Strengths
  /\ strengthValEl = strengthEl
  /\ lastZipBlob = NoZip
  /\ downloadZipBtn \in (IF page = "batch" THEN BOOLEAN ELSE {TRUE})
  /\ pctx = NewContext(BlankCanvas(0, 0))
  /\ ctx = NewContext(BlankCanvas(0, 0))
  /\ procs = [r \in Runs |-> IdleProc]
  /\ loads = [started |-> 0, failed |-> 0, created |-> 0]
  /\ download = NoDownload

Next ==
  \/ Change
  \/ Drop
  \/ StrengthInput
  \/ DownloadZipClick
  \/ \E r \in Runs :
       \/ FilesetResolved(r) \/ FilesetFailed(r)
       \/ CreateResolved(r) \/ CreateFailed(r)
       \/ DecodeResolved(r) \/ DecodeFailed(r) \/ DetectThrew(r)
       \/ EncodeResolved(r) \/ EncodeFailed(r)
       \/ ZipResolved(r) \/ ZipFailed(r)
  \/ ChangeSingle
  \/ DropSingle
  \/ DownloadClick
  \/ \E r \in Runs :
       \/ FilesetResolvedSingle(r) \/ FilesetFailedSingle(r)
       \/ CreateResolvedSingle(r) \/ CreateFailedSingle(r)
       \/ DecodeResolvedSingle(r) \/ DecodeFailedSingle(r)
       \/ DetectThrewSingle(r)

Spec == Init /\ [][Next]_vars

\* ------------------------------------------------------------ page claims

\* the steps at which an invocation is inside processOneFile / processFile
InFlight == {"fileset", "create", "decode", "encode"}

\* the steps at which a batch run is between its start and Done or Failed
Running == InFlight \cup {"zip"}

\* C1: as long as no load fails, the model load is started at most once
\* and every caller of initLandmarker is handed the same detector instance.
\* (Stated as the claim has it; the pages do not keep it.)
C1_InitOnce ==
  loads.failed = 0 =>
    /\ loads.started <= 1
    /\ \A r \in Runs : \A q \in Runs :
         procs[r].lm # 0 /\ procs[q].lm # 0 => procs[r].lm = procs[q].lm

\* C3: at every moment at most one file is between the start of its
\* decode/detect/composite/encode sequence and its completion.
\* (Stated as the claim has it; the pages do not keep it.)
C3_OneInFlight ==
  Cardinality({ r \in Runs : procs[r].pc \in InFlight }) <= 1

\* C4: a batch run over N image files, none of which fails, packages
\* exactly N outputs, and the outputs of the zero-face files equal their
\* inputs pixel for pixel.
\* (Stated as the claim has it; the batch page does not keep it.)
C4_OneOutputPerFile ==
  \A r \in Runs :
    page = "batch" /\ procs[r].pc = "done" =>
      /\ Cardinality(DOMAIN procs[r].zip) = Len(procs[r].files)
      /\ \A k \in 1 .. Len(procs[r].files) :
           FileFaces(procs[r].files[k]) = << >> =>
             procs[r].zip[EntryName(procs[r].files[k])]
               = PngBlob(FileBitmap(procs[r].files[k]))

\* C5: the step at which a batch run fails (a rejected load, decode,
\* encode or packaging, or a throwing detector) sets the error status and
\* leaves lastZipBlob and the download control as they were; from then on
\* the run takes no step (no later file is processed) and lastZipBlob is
\* never an archive of that run.
C5_FailedRunAborts ==
  [][ page = "batch" =>
        \A r \in Runs :
          /\ procs[r].pc # "failed" /\ procs'[r].pc = "failed" =>
               /\ procs[r].pc \in Running
               /\ statusEl' = <<"error">>
               /\ lastZipBlob' = lastZipBlob
               /\ downloadZipBtn' = downloadZipBtn
               /\ lastZipBlob.run # r
          /\ procs[r].pc = "failed" =>
               /\ procs'[r] = procs[r]
               /\ lastZipBlob'.run # r ]_vars

\* C5 witness: the only run so far failed after its first file had been
\* previewed; no archive is exposed and the download control is disabled.
C5_Witness ==
  /\ page = "batch"
  /\ procs[1].pc = "failed" /\ procs[2].pc = "idle"
  /\ \E b \in Strengths : pctx.canvas = Rendered["F1", b].canvas
  /\ statusEl = <<"error">>
  /\ lastZipBlob = NoZip /\ downloadZipBtn

\* the step in which invocation r calls initLandmarker
CallsInit(r) ==
  procs[r].pc \in {"idle", "encode"} /\ procs'[r].pc \in {"fileset", "decode"}

\* C8: a failing load leaves the detector handle as it was (unset, when no
\* load has succeeded), the handle only ever holds a detector some load has
\* created, a call to initLandmarker made while the handle is unset starts
\* a fresh load, and a load that succeeds hands its caller the detector it
\* has just created.
C8_FailedInitNotMemoized ==
  [][ /\ loads'.failed > loads.failed => landmarker' = landmarker
      /\ landmarker' = 0 <=> loads'.created = 0
      /\ landmarker' \in 0 .. loads'.created
      /\ \A r \in Runs :
           /\ CallsInit(r) =>
                IF landmarker = 0
                THEN /\ procs'[r].pc = "fileset"
                     /\ loads'.started = loads.started + 1
                ELSE /\ procs'[r].pc = "decode"
                     /\ procs'[r].lm = landmarker
                     /\ loads' = loads
           /\ procs[r].pc = "create" /\ procs'[r].pc = "decode" =>
                /\ landmarker' = loads'.created
                /\ loads'.created = loads.created + 1
                /\ procs'[r].lm = landmarker' ]_vars

\* C8 witness: a call made after a failed load has loaded again and got
\* its detector.
C8_Witness ==
  \E r \in Runs :
    /\ procs[r].failedBefore >= 1
    /\ procs[r].pc = "decode"
    /\ procs[r].lm # 0 /\ procs[r].lm = landmarker

\* C9: the step that decodes an image in which no face is detected runs
\* no compositor call, leaves the decoded pixels on the output surface
\* (the canvas handed to toBlob, the preview, the page's canvas) and sets
\* the "no face" status; on the batch page the entry added for the file
\* once it is encoded is the PNG of the decoded image.
C9_ZeroFacesPassThrough ==
  [][ \A r \in Runs :
        LET rec == procs[r]
            f == rec.files[rec.i]
        IN  /\ page = "batch" /\ rec.pc = "decode" /\ procs'[r].pc = "encode"
               /\ FileFaces(f) = << >> =>
                 /\ procs'[r].composed = 0
                 /\ procs'[r].blob = PngBlob(FileBitmap(f))
                 /\ pctx'.canvas = FileBitmap(f)
                 /\ statusEl' = <<"noface", f>>
            /\ page = "batch" /\ rec.pc = "encode"
               /\ procs'[r].pc \notin {"encode", "failed"}
               /\ FileFaces(f) = << >> =>
                 /\ EntryName(f) \in DOMAIN procs'[r].zip
                 /\ procs'[r].zip[EntryName(f)] = PngBlob(FileBitmap(f))
            /\ page = "single" /\ rec.pc = "decode" /\ procs'[r].pc = "done"
               /\ FileFaces(f) = << >> =>
                 /\ procs'[r].composed = 0
                 /\ ctx'.canvas = FileBitmap(f)
                 /\ statusEl' = <<"noface">> ]_vars

\* C9 witness: a batch run has decoded the faceless file F2 and waits for
\* its PNG.
C9_Witness ==
  \E r \in Runs :
    /\ page = "batch"
    /\ procs[r].pc = "encode"
    /\ procs[r].files[procs[r].i] = "F2"
    /\ procs[r].blob = PngBlob(FileBitmap("F2"))
    /\ statusEl = <<"noface", "F2">>

\* C10: while a batch run is in progress lastZipBlob is null and the
\* download control is disabled, and no step hands out an archive.
\* (Stated as the claim has it; the batch page does not keep it.)
C10_NoArchiveDuringRun ==
  (page = "batch" /\ \E r \in Runs : procs[r].pc \in Running) =>
    /\ lastZipBlob = NoZip
    /\ downloadZipBtn
    /\ download.zip = NoZip

\* ------------------------------------------- one batch at a time, portraits

\* fileEl "change" with the two portraits, by a user who picks files only
\* when no run is in progress
ChangePortraits ==
  /\ page = "batch"
  /\ \A r \in Runs : procs[r].pc \notin Running
  /\ handleFiles(<<"F4", "F5">>)
  /\ UNCHANGED loopVars /\ UNCHANGED page
  /\ download' = NoDownload

InitPortraits == Init /\ page = "batch"

NextPortraits ==
  \/ ChangePortraits
  \/ StrengthInput
  \/ DownloadZipClick
  \/ \E r \in Runs :
       \/ FilesetResolved(r) \/ FilesetFailed(r)
       \/ CreateResolved(r) \/ CreateFailed(r)
       \/ DecodeResolved(r) \/ DecodeFailed(r) \/ DetectThrew(r)
       \/ EncodeResolved(r) \/ EncodeFailed(r)
       \/ ZipResolved(r) \/ ZipFailed(r)

SpecPortraits == InitPortraits /\ [][NextPortraits]_vars

\* C11: all faces of all files of one batch run are rendered with one and
\* the same block size: the outputs of a finished run are the renderings
\* of its files at a single strength.
\* (Stated as the claim has it; the batch page does not keep it.)
C11_OneBlockPerRun ==
  \A r \in Runs :
    page = "batch" /\ procs[r].pc = "done" =>
      \E b \in Strengths :
        \A k \in 1 .. Len(procs[r].files) :
          procs[r].zip[EntryName(procs[r].files[k])]
            = PngBlob(Rendered[procs[r].files[k], b].canvas)


\* ------------------------------------------------- safeBaseName on its own

MaxName == 4

\* a letter, the dot, two of the replaced characters, the blank
NameChars == {"a", ".", "/", ":", " "}

\* file.name
Names == UNION { [1 .. n -> NameChars] : n \in 0 .. MaxName }

fnFrame ==
  <<page, dimW, dimH, faceList, faceNo, block, surface, surfaceWas, geom,
    pageVars, download>>

InitNames ==
  /\ page = "batch"
  /\ LoopUnused
  /\ PageUnused
  /\ arg \in Names
  /\ ret = << >>

\* main.ts 187 and 198: `${safeBaseName(file.name)}_mosaic.png`
ApplySafeBaseName ==
  /\ page = "batch"
  /\ ret = << >>
  /\ ret' = <<safeBaseName(arg) \o <<"_mosaic.png">>>>
  /\ UNCHANGED <<fnFrame, arg>>

NextNames == ApplySafeBaseName

SpecNames == InitNames /\ [][NextNames]_vars

\* base is name without its last extension: a dot followed to the end of
\* the name by one or more characters that are not dots
IsBaseOf(base, name) ==
  \/ /\ base = name
     /\ \/ \A p \in 1 .. Len(name) : name[p] # "."
        \/ name[Len(name)] = "."
  \/ \E p \in 1 .. Len(name) - 1 :
       /\ name[p] = "."
       /\ \A q \in p + 1 .. Len(name) : name[q] # "."
       /\ base = SubSeq(name, 1, p - 1)

\* stem is base between its first and last character that is not a blank,
\* each of the nine characters given as "_"; the default name when base
\* holds blanks only
IsStemOf(stem, base) ==
  \E lo \in 1 .. Len(base) + 1 : \E hi \in 0 .. Len(base) :
    /\ \A k \in 1 .. lo - 1 : base[k] = " "
    /\ \A k \in hi + 1 .. Len(base) : base[k] = " "
    /\ IF lo > hi
       THEN stem = <<"i", "m", "a", "g", "e">>
       ELSE /\ base[lo] # " " /\ base[hi] # " "
            /\ Len(stem) = hi - lo + 1
            /\ \A k \in 1 .. Len(stem) :
                 stem[k] = IF base[lo + k - 1] \in BadChars
                           THEN "_" ELSE base[lo + k - 1]

\* C12 (amended): the entry name of a file is a stem followed by
\* "_mosaic.png"; the stem is the file name without its last extension,
\* without the blanks at its two ends, with "_" for each of \ / : * ? " < > |,
\* and the default name when nothing remains; it holds none of the nine
\* characters and is never empty.
C12_EntryName ==
  ret # << >> =>
    LET e == ret[1]
        stem == SubSeq(e, 1, Len(e) - 1)
    IN  /\ e[Len(e)] = "_mosaic.png"
        /\ stem # << >>
        /\ \A k \in 1 .. Len(stem) : stem[k] \notin BadChars
        /\ \E n \in 0 .. Len(arg) :
             /\ IsBaseOf(SubSeq(arg, 1, n), arg)
             /\ IsStemOf(stem, SubSeq(arg, 1, n))

\* C12, a name with an extension, a blank and a replaced character
C12_Witness ==
  /\ arg = <<" ", "/", ".", "a">>
  /\ ret = << <<"_", "_mosaic.png">> >>

\* C12 as stated: the stem is the file name without its last extension with
\* "_" for each of the nine characters, the default name when that is empty.
C12_AsStated ==
  ret # << >> =>
    LET e == ret[1]
        stem == SubSeq(e, 1, Len(e) - 1)
    IN  \E n \in 0 .. Len(arg) :
          /\ IsBaseOf(SubSeq(arg, 1, n), arg)
          /\ stem = IF n = 0 THEN <<"i", "m", "a", "g", "e">>
                    ELSE [k \in 1 .. n |->
                            IF arg[k] \in BadChars THEN "_" ELSE arg[k]]


\* --------------------------------------------- buildMosaicPatch on its own

MaxPatch == 5
MaxBlockSize == 3

\* sourceCanvas: every picture of two colours, tw wide and one or two high
PatchSources(tw) ==
  UNION { { [width |-> tw, height |-> th, px |-> f] :
              f \in [Pixels(tw, th) -> {1, 2}] } : th \in 1 .. 2 }

\* the region is the whole source, its width w and the block size counted
\* in halves
InitPatch ==
  /\ page = "batch"
  /\ LoopUnused
  /\ PageUnused
  /\ \E w \in 1 .. 2 * MaxPatch : \E b \in 2 .. 2 * MaxBlockSize :
       arg \in { [src |-> c, w |-> w, blockSize |-> b] :
                   c \in PatchSources(CeilDiv(w, 2)) }
  /\ ret = << >>

\* main.ts 65-97, part_000 179-213
BuildPatch ==
  /\ ret = << >>
  /\ ret' = <<buildMosaicPatch(arg.src, 0, 0, arg.w, 2 * arg.src.height,
                               arg.blockSize, 2)>>
  /\ UNCHANGED <<fnFrame, arg>>

\* the same call on the patch the first call returned
BuildPatchAgain ==
  /\ Len(ret) = 1
  /\ ret' = Append(ret, buildMosaicPatch(ret[1], 0, 0, 2 * ret[1].width,
                                         2 * ret[1].height, arg.blockSize, 2))
  /\ UNCHANGED <<fnFrame, arg>>

NextPatch == BuildPatch \/ BuildPatchAgain

SpecPatch == InitPatch /\ [][NextPatch]_vars

\* C13: buildMosaicPatch applied, with the same block size, to a patch it
\* returned gives that patch again, pixel for pixel.
C13_PatchIdempotent ==
  Len(ret) = 2 => ret[2] = ret[1]

\* C13, a patch of five columns in two blocks of different colour, the
\* width not a multiple of the block size
C13_Witness ==
  /\ Len(ret) = 2
  /\ ret[1].width = 5 /\ arg.blockSize = 4
  /\ ret[1].px[<<0, 0>>] # ret[1].px[<<4, 0>>]


\* ------------------------------------- the single page's geometry on its own

\* img.width, img.height of photographs
PhotoSizes == {150, 300, 600}

\* part_000 163: the arguments of the buildMosaicPatch call, numerators
\* over den
RendererArgsSingle(landmarks, imgW, imgH) ==
  LET g == ovalGeomSingle(landmarks, imgW, imgH)
      r == g.region
  IN  [x |-> r.x, y |-> r.y, w |-> r.cw, h |-> r.ch,
       blockSize |-> effectiveBlock(r.w, r.den), den |-> r.den]

\* an array of 55 landmarks: those FACE_OVAL names are 10, 21 and 54, its
\* positions 1, 32 and 33, here on the three corners of outline o
ShortFace(o) ==
  [len |-> 55,
   corner |-> [j \in 1 .. Len(FACE_OVAL) |->
                 IF j = 32 THEN o[2] ELSE IF j = 33 THEN o[3] ELSE o[1]]]

\* a face of three usable landmarks in a photograph, the slider at either
\* value
InitGeom ==
  /\ page = "single"
  /\ LoopUnused
  /\ PageUnused
  /\ arg \in [landmarks : { ShortFace(o) : o \in Outlines },
              imgW : PhotoSizes, imgH : PhotoSizes, strength : Strengths]
  /\ ret = << >>

\* part_000 116-163: mosaicFaceOval up to the buildMosaicPatch call
MeasureFaceSingle ==
  /\ ret = << >>
  /\ ret' = <<[contour |-> ovalGeomSingle(arg.landmarks, arg.imgW, arg.imgH).contour,
               call |-> RendererArgsSingle(arg.landmarks, arg.imgW, arg.imgH)]>>
  /\ UNCHANGED <<fnFrame, arg>>

NextGeom == MeasureFaceSingle

SpecGeom == InitGeom /\ [][NextGeom]_vars

\* maxX - minX of the contour drawn, as a numerator over the region's den
ContourWidth(contour) ==
  (SeqMax(Xs(contour.pts)) - SeqMin(Xs(contour.pts))) * 300

\* C14 (amended): on the single page the block size handed to the renderer
\* is clamp(w/12, 12, 32), w the width maxX - minX of the expanded contour
\* before padding and clamping, whatever the strength control holds; it
\* lies in [12, 32].
C14_BlockFromContourWidth ==
  ret # << >> =>
    LET call == ret[1].call
        w == ContourWidth(ret[1].contour)
    IN  /\ call.blockSize >= 12 * call.den /\ call.blockSize <= 32 * call.den
        /\ call.blockSize = clamp(w \div 12, 12 * call.den, 32 * call.den)

\* C14, a face whose block size lies strictly between the limits and whose
\* region is wider than its contour
C14_Witness ==
  /\ ret # << >>
  /\ ret[1].call.blockSize > 12 * ret[1].call.den
  /\ ret[1].call.blockSize < 32 * ret[1].call.den
  /\ ret[1].call.w > ContourWidth(ret[1].contour)
  /\ arg.strength = 2

\* C14 as stated: the block size is clamp(width/12, 12, 32), width the width
\* of the region handed to the renderer.
C14_BlockFromRegionWidth ==
  ret # << >> =>
    LET call == ret[1].call
    IN  call.blockSize = clamp(call.w \div 12, 12 * call.den, 32 * call.den)


\* --------------------------------------- the batch page's face loop, call
\* by call (main.ts 167-195)

\* processOneFile between createImageBitmap and the loop: the off-screen
\* canvas and the preview both hold the decoded image; ret is the list of
\* the mosaicFaceOval calls made
InitLoop ==
  /\ page = "batch"
  /\ dimW \in 1 .. MaxDim
  /\ dimH \in 1 .. MaxDim
  /\ faceList \in FaceLists
  /\ faceNo = 1
  /\ block \in Strengths
  /\ surface = DrawnContext(Bitmap(dimW, dimH))
  /\ surfaceWas = surface
  /\ geom = NoGeom
  /\ landmarker = 1
  /\ statusEl = <<"progress">>
  /\ strengthEl = block
  /\ strengthValEl = block
  /\ lastZipBlob = NoZip
  /\ downloadZipBtn = TRUE
  /\ pctx = DrawnContext(Bitmap(dimW, dimH))
  /\ ctx = NewContext(BlankCanvas(0, 0))
  /\ procs = [r \in Runs |-> IdleProc]
  /\ loads = [started |-> 1, failed |-> 0, created |-> 1]
  /\ download = NoDownload
  /\ arg = << >>
  /\ ret = << >>

loopFrame ==
  <<page, dimW, dimH, faceList, block, geom, landmarker, statusEl,
    strengthEl, strengthValEl, lastZipBlob, downloadZipBtn, ctx, procs,
    loads, download, arg>>

\* the preview call left out
LoopPreviewSkipped ==
  /\ faceNo <= Len(faceList)
  /\ Len(ret) % 2 = 1
  /\ ret' = Append(ret, [on |-> "preview", face |-> faceNo])
  /\ faceNo' = faceNo + 1
  /\ UNCHANGED <<loopFrame, surface, surfaceWas, pctx>>

\* main.ts 192: mosaicFaceOval(ctx, face, img.width, img.height, strength)
LoopOutput ==
  /\ faceNo <= Len(faceList)
  /\ Len(ret) % 2 = 0
  /\ surfaceWas' = surface
  /\ surface' = mosaicFaceOval(surface, faceList[faceNo], dimW, dimH, block)
  /\ ret' = Append(ret, [on |-> "output", face |-> faceNo])
  /\ UNCHANGED <<loopFrame, faceNo, pctx>>

\* main.ts 194: mosaicFaceOval(pctx, face, img.width, img.height, strength)
LoopPreview ==
  /\ faceNo <= Len(faceList)
  /\ Len(ret) % 2 = 1
  /\ pctx' = mosaicFaceOval(pctx, faceList[faceNo], dimW, dimH, block)
  /\ ret' = Append(ret, [on |-> "preview", face |-> faceNo])
  /\ faceNo' = faceNo + 1
  /\ UNCHANGED <<loopFrame, surface, surfaceWas>>

NextLoop == LoopOutput \/ LoopPreview

SpecLoop == InitLoop /\ [][NextLoop]_vars

\* C15: for a file with one or more faces the calls are output, preview for
\* face 1, then for face 2, ...: once per face and surface, in detection
\* order; after each face, and so after the last, the preview and the
\* output hold the same pixels, those the page model tabulates.  (No step
\* of another handler comes between: the loop holds no await.)
C15_BothSurfacesInOrder ==
  dimW > 0 =>
    /\ \A k \in 1 .. Len(ret) :
         ret[k] = [on |-> IF k % 2 = 1 THEN "output" ELSE "preview",
                   face |-> (k + 1) \div 2]
    /\ Len(ret) <= 2 * Len(faceList)
    /\ Len(ret) % 2 = 0 => pctx.canvas = surface.canvas
    /\ faceNo > Len(faceList) =>
         /\ Len(ret) = 2 * Len(faceList)
         /\ surface = ComposeAll(DrawnContext(Bitmap(dimW, dimH)), faceList,
                                 dimW, dimH, block)

\* C15, two faces done, the second having changed the picture
C15_Witness ==
  /\ Len(faceList) = 2 /\ faceNo = 3 /\ Len(ret) = 4
  /\ surface.canvas # Bitmap(dimW, dimH)
  /\ pctx.canvas = surface.canvas


\* ------------------------------------------------ awaits that settle

\* one of run r's pending awaits settles, one way or the other
Settle(r) ==
  \/ FilesetFailed(r) \/ FilesetResolved(r)
  \/ CreateFailed(r) \/ CreateResolved(r)
  \/ DecodeFailed(r) \/ DetectThrew(r) \/ DecodeResolved(r)
  \/ EncodeFailed(r) \/ EncodeResolved(r)
  \/ ZipFailed(r) \/ ZipResolved(r)

\* the batch page's runs: change events start them, and every pending await
\* settles in the end
InitRuns == Init /\ page = "batch"

NextRuns == Change \/ \E r \in Runs : Settle(r)

SpecRuns ==
  InitRuns /\ [][NextRuns]_vars /\ \A r \in Runs : WF_vars(Settle(r))

\* the awaits of processOneFile in order
AwaitNo(pc) ==
  CASE pc = "fileset" -> 1 [] pc = "create" -> 2 [] pc = "decode" -> 3
    [] pc = "encode" -> 4 [] OTHER -> 0

\* what one step may do to run r
RunStep(r) ==
  LET a == procs[r]
      b == procs'[r]
  IN  \/ b = a
      \/ /\ a.pc = "idle" /\ b.pc \in {"fileset", "decode"}
         /\ b.i = 1 /\ Len(b.files) >= 1
      \/ a.pc \in Running /\ b.pc = "failed"
      \/ /\ a.pc \in InFlight /\ b.pc \in InFlight
         /\ b.files = a.files /\ b.i = a.i
         /\ AwaitNo(b.pc) > AwaitNo(a.pc)
      \/ /\ a.pc = "encode" /\ b.pc \in {"fileset", "decode"}
         /\ b.files = a.files /\ b.i = a.i + 1 /\ b.i <= Len(a.files)
         /\ EntryName(a.files[a.i]) \in DOMAIN b.zip
      \/ /\ a.pc = "encode" /\ b.pc = "zip"
         /\ b.files = a.files /\ b.i = a.i /\ a.i = Len(a.files)
         /\ \A k \in 1 .. Len(a.files) : EntryName(a.files[k]) \in DOMAIN b.zip
      \/ /\ a.pc = "zip" /\ b.pc = "done"
         /\ b.files = a.files /\ b.i = a.i /\ b.zip = a.zip

\* C16: a run starts at file 1, goes through its files in order, one at a
\* time, reaches Done only from the archive step entered after the last
\* file was added, takes no step once Done or Failed, and, every await
\* settling, does reach Done or Failed.
C16_RunLifecycle ==
  /\ [][page = "batch" => \A r \in Runs : RunStep(r)]_vars
  /\ \A r \in Runs :
       (page = "batch" /\ procs[r].pc \in Running)
         ~> (procs[r].pc \in {"done", "failed"})

\* C16, a run of two files is Done and another run has Failed
C16_Witness ==
  /\ page = "batch"
  /\ \E r \in Runs : procs[r].pc = "done" /\ procs[r].i = 2
  /\ \E r \in Runs : procs[r].pc = "failed"


\* ------------------------------------------------ the contour on its own

\* a landmark array and an image size, on either page
InitContour ==
  /\ page \in {"batch", "single"}
  /\ LoopUnused
  /\ PageUnused
  /\ arg \in [landmarks : Faces \cup {WholeFace},
              imgW : 1 .. MaxDim, imgH : 1 .. MaxDim]
  /\ ret = << >>

\* main.ts 106-129: pts and the region, or neither where the function
\* returns at once
ContourBatch ==
  /\ page = "batch"
  /\ ret = << >>
  /\ ret' = <<ovalGeom(arg.landmarks, arg.imgW, arg.imgH)>>
  /\ UNCHANGED <<fnFrame, arg>>

\* part_000 123-160: pts after the expansion and the region
ContourSingle ==
  /\ page = "single"
  /\ ret = << >>
  /\ ret' = <<ovalGeomSingle(arg.landmarks, arg.imgW, arg.imgH)>>
  /\ UNCHANGED <<fnFrame, arg>>

NextContour == ContourBatch \/ ContourSingle

SpecContour == InitContour /\ [][NextContour]_vars

\* the positions of FACE_OVAL whose index the array holds
Present(landmarks) ==
  { j \in 1 .. Len(FACE_OVAL) : FACE_OVAL[j] < landmarks.len }

\* the landmark at position j of FACE_OVAL in pixels, numerators over
\* GridN * n * 25
RawVertex(landmarks, j, imgW, imgH, n) ==
  [x |-> LandmarkAt(landmarks, j).kx * imgW * n * 25,
   y |-> LandmarkAt(landmarks, j).ky * imgH * n * 25]

\* C17: the contour has one vertex for every FACE_OVAL index the landmark
\* array holds, in FACE_OVAL order: the vertex of the k-th such index is
\* vertex k, that landmark in pixels (batch page) or that point moved away
\* from the centroid by the factor 28/25 (single page); an index the array
\* lacks only drops its vertex.  Fewer than three vertices give no contour.
C17_ContourInOvalOrder ==
  ret # << >> =>
    \A P \in {Present(arg.landmarks)} :
      LET f == arg.landmarks
          n == Cardinality(P)
          raw(j) == RawVertex(f, j, arg.imgW, arg.imgH, n)
          pts == ret[1].contour.pts
      IN  IF n < 3 THEN ret[1].contour = << >>
          ELSE /\ ret[1].contour.den = GridN * n * 25
               /\ Len(pts) = n
               /\ \A sx \in {SeqSum([j \in 1 .. Len(FACE_OVAL) |->
                                      IF j \in P THEN raw(j).x ELSE 0])} :
                  \A sy \in {SeqSum([j \in 1 .. Len(FACE_OVAL) |->
                                      IF j \in P THEN raw(j).y ELSE 0])} :
                  \A j \in P :
                    LET k == Cardinality({ i \in P : i <= j })
                    IN  IF page = "batch" THEN pts[k] = raw(j)
                        ELSE /\ 25 * (n * pts[k].x - sx) = 28 * (n * raw(j).x - sx)
                             /\ 25 * (n * pts[k].y - sy) = 28 * (n * raw(j).y - sy)

\* C17, an array that holds 23 of the 36 indices gave a contour of 23
\* vertices on the single page, not all on one point
C17_Witness ==
  /\ page = "single" /\ ret # << >> /\ ret[1].usable = 23
  /\ arg.landmarks.len = 300
  /\ Len(ret[1].contour.pts) = 23
  /\ ret[1].contour.pts[1] # ret[1].contour.pts[23]


\* ------------------------------------- runs over different single pictures

\* fileEl "change" with one picture, a.p or b.p
ChangeOne ==
  /\ page = "batch"
  /\ \E f \in {"F1", "F4"} : handleFiles(<<f>>)
  /\ UNCHANGED loopVars /\ UNCHANGED page
  /\ download' = NoDownload

NextOverlap == ChangeOne \/ DownloadZipClick \/ \E r \in Runs : Settle(r)

SpecOverlap == InitRuns /\ [][NextOverlap]_vars

\* the run started last
LatestRun == CHOOSE r \in Runs : procs[r].pc # "idle" /\ \A q \in Runs : q > r => procs[q].pc = "idle"

\* C18: once a run was started, an enabled download button means that
\* lastZipBlob is the archive of a run that is Done, with an entry for
\* every file of that run; and when no run is in progress any more and the
\* run started last is Done, it is the archive of that run.  (Stated as the
\* claim has it; the batch page does not keep the second part.)
C18_LatestArchive ==
  (page = "batch" /\ ~downloadZipBtn /\ \E r \in Runs : procs[r].pc # "idle") =>
    /\ lastZipBlob # NoZip
    /\ \E r \in Runs :
         /\ procs[r].pc = "done"
         /\ lastZipBlob = [run |-> r, entries |-> procs[r].zip]
         /\ \A k \in 1 .. Len(procs[r].files) :
              EntryName(procs[r].files[k]) \in DOMAIN procs[r].zip
    /\ (procs[LatestRun].pc = "done" /\ \A r \in Runs : procs[r].pc \notin Running) =>
         lastZipBlob.entries = procs[LatestRun].zip


\* ---------------------------------------------- the single page's canvas

\* the canvas shows nothing yet, or one file, plain or processed
ShowsOneFile ==
  \/ ctx.canvas = BlankCanvas(0, 0)
  \/ \E f \in Pictures :
       \/ ctx.canvas = RenderedSingle[f].canvas
       \/ ctx.canvas = FileBitmap(f)

\* C19: on the single page the canvas never shows patches of one file over
\* the pixels of another, and once every processFile call started has
\* finished its file, the canvas shows the processed result of the file
\* selected last.  (Stated as the claim has it; the single page does not
\* keep the second part.)
C19_CanvasShowsLatest ==
  page = "single" =>
    /\ ShowsOneFile
    /\ (/\ \E r \in Runs : procs[r].pc # "idle"
        /\ \A r \in Runs : procs[r].pc \in {"idle", "done"}) =>
         ctx.canvas = RenderedSingle[procs[LatestRun].files[1]].canvas


\* C20: for a face of three or more usable points, every pixel of the image
\* whose centre lies inside the contour (expanded, on the single page) has
\* its centre inside the region [x, x + cw] x [y, y + ch] the patch is
\* built for and pasted at.
C20_ContourInsideRegion ==
  (ret # << >> /\ ret[1].usable >= 3) =>
    \A q \in Pixels(arg.imgW, arg.imgH) :
      InsidePath(ret[1].contour, q) => InRegion(ret[1].region, q)

\* C20, a contour that holds a pixel next to the image's edge, where the
\* padded region was cut back to the image
C20_Witness ==
  /\ ret # << >> /\ ret[1].usable >= 3
  /\ \E q \in Pixels(arg.imgW, arg.imgH) :
       q[1] = arg.imgW - 1 /\ InsidePath(ret[1].contour, q)
  /\ \E q \in Pixels(arg.imgW, arg.imgH) : ~InsidePath(ret[1].contour, q)
  /\ ret[1].region.x + ret[1].region.cw = arg.imgW * ret[1].region.den

====
